---- MODULE Spec2Model ----
(***************************************************************************)
(* Conversation memory governor of the GAIA agent: step_memory_cap and     *)
(* summarize_old_messages (functions/agent_helper_functions.py and the     *)
(* copy registered on the agent in functions/agent.py).                    *)
(*                                                                         *)
(* A step is a record [id, msgs, usage]: id 0 is the task step, id 1 the   *)
(* first step appended after it (the plan), msgs is model_input_messages   *)
(* (a message is [role, text]), usage is token_usage.total_tokens, with    *)
(* NoUsage standing for token_usage = None.  The agent loop appends steps; *)
(* the governor is the step callback.                                      *)
(*                                                                         *)
(* Also modelled: run_and_submit_all (app.py), one action per section of   *)
(* the function, and the tools google_search, wikipedia_search,            *)
(* WikipediaFetcher.fetch, libretext_book_search, libretext_book_parser    *)
(* and libretext_chapter_parser, applied to what the web can answer.       *)
(***************************************************************************)
EXTENDS Integers, Sequences, FiniteSets, TLC

VARIABLES steps,      \* agent.memory.steps
          nextId,     \* step number the agent loop gives to the next step
          lastOp,     \* "init", "append", "cap" (helper copy) or "agent_cap" (agent.py copy)
          pre,        \* agent.memory.steps when the last governor call started
          raised,     \* the last governor call let an exception escape
          svc,        \* what the summarization service did in the last call
          sumCalls,   \* calls of summarize_old_messages in the last governor call
          rosterCalls,      \* client.models.list() requests in the last governor call
          completionCalls,  \* client.chat.completions.create() requests in it
          sumInput,   \* the messages handed to summarize_old_messages in it
          sumRaised,  \* summarize_old_messages raised in it
          summary,    \* what summarize_old_messages returned in it (None if nothing)
          summarized, \* some governor call of this run replaced the history by a summary
          \* run_and_submit_all (app.py)
          pc,               \* position in run_and_submit_all
          profile,          \* the user is logged in
          agent_created,    \* create_agent() returned an agent
          fetches,          \* GET requests to the questions endpoint
          questions_n,      \* len(questions_data)
          qi,               \* position of the loop in QUESTIONS (1-based)
          results_log,      \* results_log
          answers_payload,  \* answers_payload
          ran,              \* question numbers handed to agent.run, in order
          okRuns,           \* question numbers whose agent.run returned, in order
          skipped,          \* question numbers whose item lacked task_id or question
          posts,            \* POST requests to the submit endpoint
          posted,           \* the answers of the submission sent
          ret,              \* what run_and_submit_all returned
          \* tools (tools.py, tool_helper_functions.py)
          toolOp,           \* the tool called last
          toolIn,           \* what the web answered to it
          toolOut,          \* what it returned
          toolRaised,       \* it raised instead
          quitCalls         \* calls of driver.quit() it made

govVars == <<steps, nextId, lastOp, pre, raised, svc, sumCalls, rosterCalls,
             completionCalls, sumInput, sumRaised, summary, summarized>>

appVars == <<pc, profile, agent_created, fetches, questions_n, qi, results_log,
             answers_payload, ran, okRuns, skipped, posts, posted, ret>>

toolVars == <<toolOp, toolIn, toolOut, toolRaised, quitCalls>>

vars == <<govVars, appVars, toolVars>>

-----------------------------------------------------------------------------
(* Bounds *)

\* Steps created (hence the longest history) when the callback may run at any time.
MaxLen == 4
\* Steps created in a run of (append, callback) rounds.
MaxSteps == 5
\* Longest model_input_messages of a step.
MaxMsgs == 2
\* Most listings on a page, most results of a search.
MaxListings == 3

-----------------------------------------------------------------------------
(* Program constants *)

TOKEN_LIMITER == 5000
QUESTIONS == <<1, 3, 5, 8, 9, 11, 13, 17, 18, 20>>
AGENT_TOKEN_LIMIT == 50000

NoUsage == 0 - 1

SummaryPrefix == "Here is a summary of your investigation so far: "

-----------------------------------------------------------------------------
(* Inputs *)

UsageVals == {NoUsage, TOKEN_LIMITER - 1, TOKEN_LIMITER, TOKEN_LIMITER + 1,
              AGENT_TOKEN_LIMIT + 1}

\* Usages around both thresholds, for the runs that compare the two copies.
AgentUsageVals == {NoUsage, TOKEN_LIMITER, TOKEN_LIMITER + 1, AGENT_TOKEN_LIMIT,
                   AGENT_TOKEN_LIMIT + 1}

MsgCounts == {1, MaxMsgs}

Summaries == {"", "Agent searched for X and found Y."}

NoCall == [kind |-> "not_called", text |-> ""]

Outcomes ==
    {[kind |-> k, text |-> ""] :
        k \in {"no_key", "roster_fail", "roster_empty", "completion_fail", "null_content"}}
    \cup {[kind |-> "ok", text |-> s] : s \in Summaries}

Message(id, j) ==
    [role |-> IF j = 1 THEN "system" ELSE "assistant",
     text |-> "step " \o ToString(id) \o " message " \o ToString(j)]

NewStep(id, n, u) ==
    [id |-> id, msgs |-> [j \in 1..n |-> Message(id, j)], usage |-> u]

-----------------------------------------------------------------------------
(* summarize_old_messages *)

None == <<>>
Some(s) == <<s>>

summarize_old_messages_retry(messages, o) ==
    IF o.kind = "no_key"
    THEN [raised |-> TRUE, summary |-> None, roster |-> 0, completion |-> 0]
    ELSE IF o.kind \in {"roster_fail", "roster_empty"}
    THEN [raised |-> TRUE, summary |-> None, roster |-> 1, completion |-> 0]
    ELSE IF o.kind \in {"completion_fail", "null_content"}
    THEN [raised |-> FALSE, summary |-> None, roster |-> 1, completion |-> 2]
    ELSE [raised |-> FALSE, summary |-> Some(o.text), roster |-> 1, completion |-> 1]

summarize_old_messages(messages, o) ==
    IF o.kind = "no_key"
    THEN [raised |-> TRUE, summary |-> None, roster |-> 0, completion |-> 0]
    ELSE IF o.kind \in {"roster_fail", "roster_empty"}
    THEN [raised |-> TRUE, summary |-> None, roster |-> 1, completion |-> 0]
    ELSE IF o.kind = "completion_fail"
    THEN [raised |-> FALSE, summary |-> None, roster |-> 1, completion |-> 1]
    ELSE IF o.kind = "null_content"
    THEN [raised |-> FALSE, summary |-> None, roster |-> 1, completion |-> 1]
    ELSE [raised |-> FALSE, summary |-> Some(o.text), roster |-> 1, completion |-> 1]

-----------------------------------------------------------------------------
(* step_memory_cap *)

TrimmedKeepsThird(s) ==
    IF Len(s) > 2 THEN <<s[1], s[2], s[3]>> ELSE s

TrimmedKeepsPrevious(s) ==
    IF Len(s) > 2 THEN <<s[1], s[2], s[Len(s) - 1]>> ELSE s

TrimmedKeepsLastTwo(s) ==
    IF Len(s) > 2 THEN <<s[1], s[Len(s) - 1], s[Len(s)]>> ELSE s

TrimmedNever(s) == s

Trimmed(s) ==
    IF Len(s) > 2 THEN <<s[1], s[2], s[Len(s)]>> ELSE s

ExceedsLimitAlways(token_usage, limit) == token_usage > 0

ExceedsLimitOrEqual(token_usage, limit) == token_usage >= limit

ExceedsLimit(token_usage, limit) == token_usage > limit

SummaryMessage(txt) ==
    [role |-> "user", text |-> SummaryPrefix \o txt]

ReplacedByLatest(t, new_messages) ==
    <<[t[Len(t)] EXCEPT !.msgs = new_messages]>>

Replaced(t, new_messages) ==
    <<[t[1] EXCEPT !.msgs = new_messages]>>

ApplySummaryTaskPreamble(t, result) ==
    IF result = None
    THEN [steps |-> t, raised |-> FALSE]
    ELSE [steps |-> Replaced(t, <<t[1].msgs[1], SummaryMessage(result[1])>>),
          raised |-> FALSE]

ApplySummaryUnchecked(t, result) ==
    [steps |-> Replaced(t, <<t[Len(t)].msgs[1],
                             SummaryMessage(IF result = None THEN "None" ELSE result[1])>>),
     raised |-> FALSE]

ApplySummary(t, result) ==
    IF result = None
    THEN [steps |-> t, raised |-> FALSE]
    ELSE IF Len(t[Len(t)].msgs) = 0
    THEN [steps |-> t, raised |-> TRUE]
    ELSE [steps |-> Replaced(t, <<t[Len(t)].msgs[1], SummaryMessage(result[1])>>),
          raised |-> FALSE]

SummarizerInputAll(msgs) == msgs

SummarizerInput(msgs) == SubSeq(msgs, 2, Len(msgs))

Untouched(s, r) ==
    [steps |-> s, raised |-> r, svc |-> NoCall, sumCalls |-> 0, roster |-> 0,
     completion |-> 0, sumInput |-> <<>>, sumRaised |-> FALSE, summary |-> None]

step_memory_cap(s, limit, o) ==
    IF Len(s) < 2
    THEN Untouched(s, TRUE)
    ELSE LET t == Trimmed(s)
             latest == t[Len(t)]
         IN  IF latest.usage = NoUsage
             THEN Untouched(t, TRUE)
             ELSE IF ~ExceedsLimit(latest.usage, limit)
             THEN Untouched(t, FALSE)
             ELSE LET input == SummarizerInput(latest.msgs)
                      r == summarize_old_messages(input, o)
                      called == [svc |-> o, sumCalls |-> 1, roster |-> r.roster,
                                 completion |-> r.completion, sumInput |-> input,
                                 sumRaised |-> r.raised, summary |-> r.summary]
                  IN  IF r.raised
                      THEN [steps |-> t, raised |-> TRUE] @@ called
                      ELSE ApplySummary(t, r.summary) @@ called

-----------------------------------------------------------------------------
(* The agent loop and the callback *)

ToolIdle ==
    /\ toolOp = "idle"
    /\ toolIn = None
    /\ toolOut = None
    /\ toolRaised = FALSE
    /\ quitCalls = 0

AppIdle ==
    /\ pc = "idle"
    /\ profile = FALSE
    /\ agent_created = FALSE
    /\ fetches = 0
    /\ questions_n = 0
    /\ qi = 0
    /\ results_log = <<>>
    /\ answers_payload = <<>>
    /\ ran = <<>>
    /\ okRuns = <<>>
    /\ skipped = {}
    /\ posts = 0
    /\ posted = <<>>
    /\ ret = None

TypeOK ==
    /\ Len(steps) >= 1
    /\ nextId \in 1..MaxSteps
    /\ lastOp \in {"init", "append", "cap", "agent_cap"}
    /\ raised \in BOOLEAN

Init ==
    /\ \E n \in MsgCounts, u \in UsageVals : steps = <<NewStep(0, n, u)>>
    /\ nextId = 1
    /\ lastOp = "init"
    /\ pre = <<>>
    /\ raised = FALSE
    /\ svc = NoCall
    /\ sumCalls = 0
    /\ rosterCalls = 0
    /\ completionCalls = 0
    /\ sumInput = <<>>
    /\ sumRaised = FALSE
    /\ summary = None
    /\ summarized = FALSE
    /\ AppIdle
    /\ ToolIdle

AppendStepWith(Usages) ==
    /\ nextId < MaxSteps
    /\ \E n \in MsgCounts, u \in Usages :
           steps' = Append(steps, NewStep(nextId, n, u))
    /\ nextId' = nextId + 1
    /\ lastOp' = "append"
    /\ pre' = <<>>
    /\ raised' = FALSE
    /\ svc' = NoCall
    /\ sumCalls' = 0
    /\ rosterCalls' = 0
    /\ completionCalls' = 0
    /\ sumInput' = <<>>
    /\ sumRaised' = FALSE
    /\ summary' = None
    /\ UNCHANGED summarized
    /\ UNCHANGED <<appVars, toolVars>>

AppendStep == AppendStepWith(UsageVals)

Callback(limit, op) ==
    \E o \in Outcomes :
        LET r == step_memory_cap(steps, limit, o)
        IN  /\ steps' = r.steps
            /\ lastOp' = op
            /\ pre' = steps
            /\ raised' = r.raised
            /\ svc' = r.svc
            /\ sumCalls' = r.sumCalls
            /\ rosterCalls' = r.roster
            /\ completionCalls' = r.completion
            /\ sumInput' = r.sumInput
            /\ sumRaised' = r.sumRaised
            /\ summary' = r.summary
            /\ summarized' = (summarized \/ (r.summary # None /\ ~r.raised))
            /\ UNCHANGED nextId
            /\ UNCHANGED <<appVars, toolVars>>

StepMemoryCap == Callback(TOKEN_LIMITER, "cap")

AgentStepMemoryCap == Callback(AGENT_TOKEN_LIMIT, "agent_cap")

Next ==
    \/ (nextId < MaxLen /\ AppendStep)
    \/ StepMemoryCap

Spec == Init /\ [][Next]_vars

NextRounds ==
    \/ (lastOp # "append" /\ AppendStep)
    \/ (lastOp = "append" /\ StepMemoryCap)

SpecRounds == Init /\ [][NextRounds]_vars

\* Rounds in which the callback is either copy of step_memory_cap.
NextCopies ==
    \/ (lastOp # "append" /\ nextId < MaxLen /\ AppendStepWith(AgentUsageVals))
    \/ (lastOp = "append" /\ StepMemoryCap)
    \/ (lastOp = "append" /\ AgentStepMemoryCap)

SpecCopies == Init /\ [][NextCopies]_vars

-----------------------------------------------------------------------------
(* run_and_submit_all *)

GovIdle ==
    /\ steps = <<>>
    /\ nextId = 0
    /\ lastOp = "idle"
    /\ pre = <<>>
    /\ raised = FALSE
    /\ svc = NoCall
    /\ sumCalls = 0
    /\ rosterCalls = 0
    /\ completionCalls = 0
    /\ sumInput = <<>>
    /\ sumRaised = FALSE
    /\ summary = None
    /\ summarized = FALSE

\* What the questions endpoint can answer: a failure, or a list of n questions.
FetchedCounts == {0, Len(QUESTIONS), QUESTIONS[Len(QUESTIONS)], QUESTIONS[Len(QUESTIONS)] + 1}

FetchOutcomes ==
    {[kind |-> k, n |-> 0] : k \in {"json_error", "request_error", "unexpected_error"}}
    \cup {[kind |-> "list", n |-> n] : n \in FetchedCounts}

ItemKinds == {"valid", "no_task_id", "no_question"}

SubmitOutcomes == {"ok", "http_error", "timeout", "request_error", "unexpected_error"}

Returned(status, table) == [status |-> status, table |-> table]

AnswerRow(q, answer) == [task_id |-> q, answer |-> answer]

PayloadAfterRunAlways(payload, q, agent_ok) ==
    Append(payload, AnswerRow(q, IF agent_ok THEN "answer " \o ToString(q)
                                 ELSE "AGENT ERROR: " \o "agent failed"))

PayloadAfterRun(payload, q, agent_ok) ==
    IF agent_ok
    THEN Append(payload, AnswerRow(q, "answer " \o ToString(q)))
    ELSE payload

InitApp ==
    /\ GovIdle
    /\ ToolIdle
    /\ pc = "login"
    /\ profile \in BOOLEAN
    /\ agent_created = FALSE
    /\ fetches = 0
    /\ questions_n = 0
    /\ qi = 0
    /\ results_log = <<>>
    /\ answers_payload = <<>>
    /\ ran = <<>>
    /\ okRuns = <<>>
    /\ skipped = {}
    /\ posts = 0
    /\ posted = <<>>
    /\ ret = None

CheckLoginSkipped ==
    /\ pc = "login"
    /\ pc' = "create_agent"
    /\ UNCHANGED ret
    /\ UNCHANGED <<profile, agent_created, fetches, questions_n, qi, results_log,
                   answers_payload, ran, okRuns, skipped, posts, posted>>
    /\ UNCHANGED <<govVars, toolVars>>

CheckLogin ==
    /\ pc = "login"
    /\ IF profile
       THEN pc' = "create_agent" /\ UNCHANGED ret
       ELSE /\ pc' = "returned"
            /\ ret' = Some(Returned("Please Login to Hugging Face with the button.", None))
    /\ UNCHANGED <<profile, agent_created, fetches, questions_n, qi, results_log,
                   answers_payload, ran, okRuns, skipped, posts, posted>>
    /\ UNCHANGED <<govVars, toolVars>>

CreateAgent ==
    /\ pc = "create_agent"
    /\ \E ok \in BOOLEAN :
           IF ok
           THEN agent_created' = TRUE /\ pc' = "fetch" /\ UNCHANGED ret
           ELSE /\ UNCHANGED agent_created
                /\ pc' = "returned"
                /\ ret' = Some(Returned("Error initializing agent", None))
    /\ UNCHANGED <<profile, fetches, questions_n, qi, results_log,
                   answers_payload, ran, okRuns, skipped, posts, posted>>
    /\ UNCHANGED <<govVars, toolVars>>

FetchQuestions ==
    /\ pc = "fetch"
    /\ fetches' = fetches + 1
    /\ \E o \in FetchOutcomes :
           IF o.kind = "json_error"
           THEN /\ pc' = "returned"
                /\ ret' = Some(Returned("Error decoding server response for questions", None))
                /\ UNCHANGED <<questions_n, qi>>
           ELSE IF o.kind = "request_error"
           THEN /\ pc' = "returned"
                /\ ret' = Some(Returned("Error fetching questions", None))
                /\ UNCHANGED <<questions_n, qi>>
           ELSE IF o.kind = "unexpected_error"
           THEN /\ pc' = "returned"
                /\ ret' = Some(Returned("An unexpected error occurred fetching questions", None))
                /\ UNCHANGED <<questions_n, qi>>
           ELSE IF o.n = 0
           THEN /\ pc' = "returned"
                /\ ret' = Some(Returned("Fetched questions list is empty or invalid format.", None))
                /\ UNCHANGED <<questions_n, qi>>
           ELSE /\ pc' = "loop"
                /\ questions_n' = o.n
                /\ qi' = 1
                /\ UNCHANGED ret
    /\ UNCHANGED <<profile, agent_created, results_log, answers_payload, ran, okRuns,
                   skipped, posts, posted>>
    /\ UNCHANGED <<govVars, toolVars>>

\* One iteration of `for question_number in QUESTIONS`.
RunQuestion ==
    /\ pc = "loop"
    /\ qi <= Len(QUESTIONS)
    /\ LET q == QUESTIONS[qi]
       IN  IF q - 1 >= questions_n
           THEN /\ pc' = "raised"
                /\ UNCHANGED <<qi, results_log, answers_payload, ran, okRuns, skipped>>
           ELSE \E kind \in ItemKinds :
                    IF kind # "valid"
                    THEN /\ skipped' = skipped \cup {q}
                         /\ qi' = qi + 1
                         /\ UNCHANGED <<pc, results_log, answers_payload, ran, okRuns>>
                    ELSE \E agent_ok \in BOOLEAN :
                             /\ ran' = Append(ran, q)
                             /\ qi' = qi + 1
                             /\ UNCHANGED <<pc, skipped>>
                             /\ answers_payload' = PayloadAfterRun(answers_payload, q, agent_ok)
                             /\ IF agent_ok
                                THEN /\ okRuns' = Append(okRuns, q)
                                     /\ results_log' = Append(results_log,
                                            AnswerRow(q, "answer " \o ToString(q)))
                                ELSE /\ UNCHANGED okRuns
                                     /\ results_log' = Append(results_log,
                                            AnswerRow(q, "AGENT ERROR: " \o "agent failed"))
    /\ UNCHANGED <<profile, agent_created, fetches, questions_n, posts, posted, ret>>
    /\ UNCHANGED <<govVars, toolVars>>

\* After the loop: nothing to submit, or on to the submission.
LoopEnd ==
    /\ pc = "loop"
    /\ qi > Len(QUESTIONS)
    /\ IF answers_payload = <<>>
       THEN /\ pc' = "returned"
            /\ ret' = Some(Returned("Agent did not produce any answers to submit.",
                                    Some(results_log)))
       ELSE pc' = "submit" /\ UNCHANGED ret
    /\ UNCHANGED <<profile, agent_created, fetches, questions_n, qi, results_log,
                   answers_payload, ran, okRuns, skipped, posts, posted>>
    /\ UNCHANGED <<govVars, toolVars>>

Submit ==
    /\ pc = "submit"
    /\ posts' = posts + 1
    /\ posted' = answers_payload
    /\ \E o \in SubmitOutcomes :
           ret' = Some(Returned(
                      IF o = "ok" THEN "Submission Successful!"
                      ELSE IF o = "http_error" THEN "Submission Failed: Server responded with status"
                      ELSE IF o = "timeout" THEN "Submission Failed: The request timed out."
                      ELSE IF o = "request_error" THEN "Submission Failed: Network error"
                      ELSE "An unexpected error occurred during submission",
                      Some(results_log)))
    /\ pc' = "returned"
    /\ UNCHANGED <<profile, agent_created, fetches, questions_n, qi, results_log,
                   answers_payload, ran, okRuns, skipped>>
    /\ UNCHANGED <<govVars, toolVars>>

NextApp ==
    \/ CheckLogin
    \/ CreateAgent
    \/ FetchQuestions
    \/ RunQuestion
    \/ LoopEnd
    \/ Submit

SpecApp == InitApp /\ [][NextApp]_vars

-----------------------------------------------------------------------------
(* Tools: the searches, the Wikipedia fetcher and the LibreTexts parsers.    *)
(* Text that the code measures or cuts (titles, descriptions, URLs) is a     *)
(* sequence of characters.                                                   *)

IntKey(i) == [int |-> i]
StrKey(k) == [str |-> k]

EmptyDict == [k \in {} |-> None]

DictSet(d, key, value) ==
    [k \in DOMAIN d \cup {key} |-> IF k = key THEN value ELSE d[k]]

PyDict(d) == [type |-> "dict", value |-> d]
PyStr(text) == [type |-> "str", value |-> text]

\* str.strip()
RECURSIVE LStrip(_)
LStrip(s) == IF s # <<>> /\ Head(s) = " " THEN LStrip(Tail(s)) ELSE s

RECURSIVE RStrip(_)
RStrip(s) ==
    IF s # <<>> /\ s[Len(s)] = " " THEN RStrip(SubSeq(s, 1, Len(s) - 1)) ELSE s

Strip(s) == RStrip(LStrip(s))

\* str.startswith(prefix)
StartsWith(s, prefix) ==
    /\ Len(prefix) <= Len(s)
    /\ SubSeq(s, 1, Len(prefix)) = prefix

\* s[n:]
From(s, n) == SubSeq(s, n + 1, Len(s))

(* wikipedia_search *)

WikiStatuses == {200, 404, 429, 503}

WikiPages ==
    {[title |-> "Python (programming language)", description |-> "General-purpose language"],
     [title |-> "Monty Python", description |-> "None"]}

RECURSIVE Enumerate(_, _, _)
Enumerate(results, i, parsed) ==
    IF i > Len(results)
    THEN parsed
    ELSE Enumerate(results, i + 1,
                   DictSet(parsed, IntKey(i - 1),
                           [title |-> results[i].title,
                            description |-> results[i].description]))

wikipedia_search(status_code, pages) ==
    IF status_code = 200
    THEN PyDict(Enumerate(pages, 1, EmptyDict))
    ELSE PyStr("Error: Unable to retrieve page. Status code " \o ToString(status_code))

(* libretext_book_parser, libretext_chapter_parser *)

Intro == <<"I", "n", "t", "r", "o">>
IntroPadded == <<" ", "I", "n", "t", "r", "o", " ">>
IntroAbout == <<"I", "n", "t", "r", "o", ":", " ", "A", "l", "l">>
ShortPadded == <<" ", "1", ".", " ">>
About == <<"A", "l", "l">>

BookListings ==
    {[link |-> FALSE, span |-> FALSE, text |-> <<>>, href |-> "", title_attr |-> <<>>],
     [link |-> TRUE, span |-> FALSE, text |-> <<>>, href |-> "/Bookshelves/a", title_attr |-> About],
     [link |-> TRUE, span |-> TRUE, text |-> ShortPadded, href |-> "/Bookshelves/b", title_attr |-> <<>>],
     [link |-> TRUE, span |-> TRUE, text |-> IntroPadded, href |-> "https://chem.libretexts.org/c",
      title_attr |-> IntroAbout],
     [link |-> TRUE, span |-> TRUE, text |-> Intro, href |-> "", title_attr |-> About]}

ChapterListings ==
    {[dl |-> FALSE, dt |-> FALSE, link |-> FALSE, text |-> <<>>, href |-> "", dd |-> FALSE, overview |-> <<>>],
     [dl |-> TRUE, dt |-> FALSE, link |-> FALSE, text |-> <<>>, href |-> "", dd |-> TRUE, overview |-> About],
     [dl |-> TRUE, dt |-> TRUE, link |-> FALSE, text |-> <<>>, href |-> "", dd |-> FALSE, overview |-> <<>>],
     [dl |-> TRUE, dt |-> TRUE, link |-> TRUE, text |-> ShortPadded, href |-> "/Bookshelves/b", dd |-> TRUE,
      overview |-> About],
     [dl |-> TRUE, dt |-> TRUE, link |-> TRUE, text |-> IntroPadded, href |-> "https://chem.libretexts.org/c",
      dd |-> TRUE, overview |-> IntroPadded],
     [dl |-> TRUE, dt |-> TRUE, link |-> TRUE, text |-> Intro, href |-> "", dd |-> FALSE, overview |-> <<>>]}

FetchResults == {"ok", "request_error", "unexpected_error"}

\* `if link:` (book), `if dl_element: if dt_element: if link:` (chapter)
HasLink(parser, listing) ==
    IF parser = "book" THEN listing.link
    ELSE listing.dl /\ listing.dt /\ listing.link

TitleOf(parser, listing) ==
    IF parser = "book"
    THEN (IF listing.span THEN Strip(listing.text) ELSE <<>>)
    ELSE Strip(listing.text)

BookDescription(title, description) ==
    IF description # <<>> /\ title # <<>> /\ StartsWith(description, title)
    THEN LET rest == Strip(From(description, Len(title)))
         IN  IF StartsWith(rest, <<":">>) THEN Strip(From(rest, 1)) ELSE rest
    ELSE description

DescriptionOf(parser, listing) ==
    IF parser = "book"
    THEN BookDescription(TitleOf(parser, listing), listing.title_attr)
    ELSE (IF listing.dd THEN Strip(listing.overview) ELSE <<>>)

\* `if title and len(title) > 2:`
Meaningful(title) == title # <<>> /\ Len(title) > 2

CountAfterEveryLink(count, added) == count + 1

CountAfter(count, added) == IF added THEN count + 1 ELSE count

RECURSIVE ParseListings(_, _, _, _, _)
ParseListings(parser, listings, i, parsed, count) ==
    IF i > Len(listings)
    THEN parsed
    ELSE LET listing == listings[i]
         IN  IF ~HasLink(parser, listing)
             THEN ParseListings(parser, listings, i + 1, parsed, count)
             ELSE LET title == TitleOf(parser, listing)
                      added == Meaningful(title)
                      entry == [title |-> title, url |-> listing.href,
                                description |-> DescriptionOf(parser, listing)]
                  IN  ParseListings(parser, listings, i + 1,
                                    IF added THEN DictSet(parsed, IntKey(count), entry)
                                    ELSE parsed,
                                    CountAfter(count, added))

CaughtOnlyRequestErrors(fetched) == fetched = "request_error"

\* the two except clauses of the parsers
Caught(fetched) == fetched \in {"request_error", "unexpected_error"}

libretext_parser(parser, fetched, listings) ==
    IF fetched = "ok"
    THEN [raised |-> FALSE, out |-> PyDict(ParseListings(parser, listings, 1, EmptyDict, 0))]
    ELSE IF ~Caught(fetched)
    THEN [raised |-> TRUE, out |-> None]
    ELSE [raised |-> FALSE,
          out |-> PyDict(DictSet(EmptyDict, StrKey("error"),
                     IF fetched = "request_error" THEN "Request error: failed"
                     ELSE "Unexpected error: failed"))]

RECURSIVE SeqsUpTo(_, _)
SeqsUpTo(S, n) ==
    IF n = 0 THEN {<<>>}
    ELSE LET shorter == SeqsUpTo(S, n - 1)
         IN  shorter \cup {Append(q, x) : q \in shorter, x \in S}

(* google_search *)

\* search(query, num_results=10, advanced=True)
NUM_RESULTS == 10

Hits ==
    {[title |-> "Welcome to Python.org", url |-> "https://www.python.org/",
      description |-> "The official home of the Python Programming Language"],
     [title |-> "", url |-> "https://docs.python.org/3/", description |-> ""]}

\* A full page of results.
FullPage ==
    [i \in 1..NUM_RESULTS |->
        [title |-> "hit " \o ToString(i),
         url |-> "https://example.org/" \o ToString(i),
         description |-> "about " \o ToString(i)]]

SearchPages == SeqsUpTo(Hits, MaxListings) \cup {FullPage}

HitEntryWithoutUrl(result) ==
    [title |-> result.title, url |-> "", description |-> result.description]

HitEntry(result) ==
    [title |-> result.title, url |-> result.url, description |-> result.description]

RECURSIVE EnumerateHits(_, _, _)
EnumerateHits(results, i, parsed) ==
    IF i > Len(results)
    THEN parsed
    ELSE EnumerateHits(results, i + 1,
                       DictSet(parsed, IntKey(i - 1), HitEntry(results[i])))

google_search(results) == PyDict(EnumerateHits(results, 1, EmptyDict))

(* WikipediaFetcher *)

\* What requests.get does: a response, one of the three exceptions handled,
\* or another exception.
RequestFailures == {"ConnectionError", "Timeout", "TooManyRedirects", "other_error"}

HttpStatuses == {200, 204, 404, 503}

\* A page is a sequence of elements; an element has a tag (none for bare
\* text) and classes.
HtmlElements ==
    {[tag |-> "p", class |-> {}],
     [tag |-> "form", class |-> {}],
     [tag |-> "script", class |-> {}],
     [tag |-> "div", class |-> {"hatnote"}],
     [tag |-> "table", class |-> {"infobox"}]}

FetchInputs ==
    {[request |-> "response", status_code |-> c, html |-> h] :
        c \in HttpStatuses, h \in SeqsUpTo(HtmlElements, MaxListings)}
    \cup {[request |-> r, status_code |-> 0, html |-> <<>>] : r \in RequestFailures}

\* response.raise_for_status()
RaisesForStatus(status_code) == status_code >= 400 /\ status_code < 600

_get_html(request, status_code, html) ==
    LET after_get == IF request = "ConnectionError" THEN "Can't connect to domain."
                     ELSE IF request = "Timeout" THEN "Connection timed out."
                     ELSE IF request = "TooManyRedirects" THEN "Too many redirects."
                     ELSE ""
        error_message ==
            IF request = "response"
            THEN (IF RaisesForStatus(status_code)
                  THEN "HTTP Error: " \o ToString(status_code)
                  ELSE after_get)
            ELSE (IF after_get = "" THEN "Something unusual went wrong." ELSE after_get)
    IN  IF error_message # ""
        THEN [success |-> FALSE, content |-> error_message]
        ELSE [success |-> TRUE, content |-> html]

\* The tags of allowed_tags that the modelled pages use.
AllowedTags == {"a", "div", "p", "span", "table", "script", "style"}

\* bleach.clean(..., strip=True): a disallowed tag goes, its contents stay.
_bleach_html(html) ==
    [i \in 1..Len(html) |->
        IF html[i].tag \in AllowedTags THEN html[i] ELSE [tag |-> "", class |-> {}]]

Decomposed(e) ==
    \/ e.tag \in {"script", "style"}
    \/ e.tag = "div" /\ "hatnote" \in e.class
    \/ e.tag = "div" /\ {"navbar", "mini"} \subseteq e.class
    \/ e.tag = "div" /\ "topicon" \in e.class
    \/ e.tag = "a" /\ "mw-headline-anchor" \in e.class
    \/ e.class \cap {"ambox-notice", "magnify", "mediaContainer", "navbox", "noprint"} # {}

AddClasses(e) ==
    IF e.class \cap {"infobox", "ambox", "wikitable"} # {}
    THEN [e EXCEPT !.class = @ \cup {"table", "table-bordered"}]
    ELSE e

_strip_html(html) ==
    LET Stays(e) == ~Decomposed(e)
        kept == SelectSeq(html, Stays)
    IN  [i \in 1..Len(kept) |-> AddClasses(kept[i])]

_tidy_html(html) == _strip_html(_bleach_html(html))

fetch_raw(request, status_code, html) ==
    IF request = "other_error"
    THEN [raised |-> TRUE, out |-> None]
    ELSE [raised |-> FALSE, out |-> _get_html(request, status_code, html)]

fetch(request, status_code, html) ==
    IF request = "other_error"
    THEN [raised |-> TRUE, out |-> None]
    ELSE LET result == _get_html(request, status_code, html)
         IN  [raised |-> FALSE,
              out |-> IF result.success
                      THEN [result EXCEPT !.content = _tidy_html(@)]
                      ELSE result]

(* libretext_book_search *)

LibretextsOrigin == <<"h", "t", "t", "p", "s", ":", "/", "/", "c", "h", "e", "m", ".", "l", "i", "b", "r", "e", "t", "e", "x", "t", "s", ".", "o", "r", "g">>

HrefRoot == <<"/", "B", "o", "o", "k", "s", "/", "a">>
HrefAbsolute == <<"h", "t", "t", "p", "s", ":", "/", "/", "b">>
HrefFragment == <<"#", "t", "o", "p">>
HrefRelative == <<"B", "o", "o", "k", "s", "/", "c">>

\* The divs of the results page: the first anchor's text and href, and the
\* texts of the p, span and div elements inside.
SearchDivs ==
    {[link |-> FALSE, text |-> <<>>, href |-> <<>>, texts |-> <<About>>],
     [link |-> TRUE, text |-> IntroPadded, href |-> HrefRoot, texts |-> <<Intro, About>>],
     [link |-> TRUE, text |-> Intro, href |-> HrefAbsolute, texts |-> <<>>],
     [link |-> TRUE, text |-> Intro, href |-> HrefFragment, texts |-> <<About>>],
     [link |-> TRUE, text |-> ShortPadded, href |-> HrefRelative, texts |-> <<About>>],
     [link |-> TRUE, text |-> Intro, href |-> <<>>, texts |-> <<Intro>>]}

\* What Chrome does: creating the driver, loading and waiting for the page,
\* and quitting.
ChromeRuns ==
    {[driver |-> "created", page |-> p, quit |-> q] :
        p \in {"results", "timeout", "webdriver_error", "other_error"},
        q \in {"ok", "fails"}}
    \cup {[driver |-> d, page |-> "none", quit |-> "none"] :
            d \in {"webdriver_error", "other_error"}}

SearchInputs ==
    {[chrome |-> c, divs |-> d] :
        c \in {r \in ChromeRuns : r.page = "results"},
        d \in SeqsUpTo(SearchDivs, MaxListings)}
    \cup {[chrome |-> c, divs |-> <<>>] : c \in {r \in ChromeRuns : r.page # "results"}}

\* `if url and url.startswith('/')`
AbsoluteUrl(url) ==
    IF url # <<>> /\ StartsWith(url, <<"/">>) THEN LibretextsOrigin \o url ELSE url

\* `if text and len(text) > 20 and not title or text != title`
RECURSIVE SummaryOf(_, _, _)
SummaryOf(texts, i, title) ==
    IF i > Len(texts)
    THEN <<>>
    ELSE IF (texts[i] # <<>> /\ Len(texts[i]) > 20 /\ title = <<>>) \/ texts[i] # title
    THEN texts[i]
    ELSE SummaryOf(texts, i + 1, title)

\* `if title and len(title) > 3`
MeaningfulTitle(title) == title # <<>> /\ Len(title) > 3

RECURSIVE ParseSearchDivs(_, _, _, _)
ParseSearchDivs(divs, i, parsed, result_count) ==
    IF i > Len(divs)
    THEN parsed
    ELSE LET div == divs[i]
             title == IF div.link THEN Strip(div.text) ELSE <<>>
             url == IF div.link THEN AbsoluteUrl(div.href) ELSE <<>>
             found == SummaryOf(div.texts, 1, title)
         IN  IF MeaningfulTitle(title)
             THEN ParseSearchDivs(divs, i + 1,
                      DictSet(parsed, IntKey(result_count),
                              [title |-> title, url |-> url, description |-> found]),
                      result_count + 1)
             ELSE ParseSearchDivs(divs, i + 1, parsed, result_count)

ErrorDict(message) == DictSet(EmptyDict, StrKey("error"), message)

QuitCallsOnReturnOnly(chrome) ==
    IF chrome.driver = "created" /\ chrome.page = "results" THEN 1 ELSE 0

\* the finally clause: `if driver: driver.quit()`
QuitCalls(chrome) == IF chrome.driver = "created" THEN 1 ELSE 0

libretext_book_search(chrome, divs) ==
    [raised |-> FALSE,
     quits |-> QuitCalls(chrome),
     out |-> PyDict(
         IF chrome.driver = "webdriver_error" \/ chrome.page = "webdriver_error"
         THEN ErrorDict("WebDriver error: failed")
         ELSE IF chrome.driver = "other_error" \/ chrome.page = "other_error"
         THEN ErrorDict("Unexpected error: failed")
         ELSE IF chrome.page = "timeout"
         THEN ErrorDict("Timeout waiting for search results to load")
         ELSE ParseSearchDivs(divs, 1, EmptyDict, 0))]

InitTools ==
    /\ GovIdle
    /\ AppIdle
    /\ ToolIdle

WikipediaSearch ==
    /\ toolOp = "idle"
    /\ \E status_code \in WikiStatuses, pages \in SeqsUpTo(WikiPages, MaxListings) :
           /\ toolIn' = [status_code |-> status_code, pages |-> pages]
           /\ toolOut' = wikipedia_search(status_code, pages)
    /\ toolOp' = "wikipedia_search"
    /\ toolRaised' = FALSE
    /\ UNCHANGED quitCalls
    /\ UNCHANGED <<govVars, appVars>>

WikipediaSearchNoResponse ==
    /\ toolOp = "idle"
    /\ toolIn' = [status_code |-> 0, pages |-> <<>>]
    /\ toolOut' = None
    /\ toolOp' = "wikipedia_search"
    /\ toolRaised' = TRUE
    /\ UNCHANGED quitCalls
    /\ UNCHANGED <<govVars, appVars>>

LibretextParser(parser, Listings) ==
    /\ toolOp = "idle"
    /\ \E fetched \in FetchResults, listings \in SeqsUpTo(Listings, MaxListings) :
           LET r == libretext_parser(parser, fetched, listings)
           IN  /\ toolIn' = [fetched |-> fetched, listings |-> listings]
               /\ toolOut' = r.out
               /\ toolRaised' = r.raised
    /\ toolOp' = parser
    /\ UNCHANGED quitCalls
    /\ UNCHANGED <<govVars, appVars>>

LibretextBookParser == LibretextParser("book", BookListings)

LibretextChapterParser == LibretextParser("chapter", ChapterListings)

GoogleSearch ==
    /\ toolOp = "idle"
    /\ \E results \in SearchPages :
           /\ toolIn' = [results |-> results]
           /\ toolOut' = google_search(results)
    /\ toolOp' = "google_search"
    /\ toolRaised' = FALSE
    /\ UNCHANGED quitCalls
    /\ UNCHANGED <<govVars, appVars>>

\* search() raised: nothing in google_search catches it.
GoogleSearchNoResponse ==
    /\ toolOp = "idle"
    /\ toolIn' = [results |-> <<>>]
    /\ toolOut' = None
    /\ toolOp' = "google_search"
    /\ toolRaised' = TRUE
    /\ UNCHANGED quitCalls
    /\ UNCHANGED <<govVars, appVars>>

WikipediaFetch ==
    /\ toolOp = "idle"
    /\ \E input \in FetchInputs :
           LET r == fetch(input.request, input.status_code, input.html)
           IN  /\ toolIn' = input
               /\ toolOut' = r.out
               /\ toolRaised' = r.raised
    /\ toolOp' = "fetch"
    /\ UNCHANGED quitCalls
    /\ UNCHANGED <<govVars, appVars>>

LibretextBookSearch ==
    /\ toolOp = "idle"
    /\ \E input \in SearchInputs :
           LET r == libretext_book_search(input.chrome, input.divs)
           IN  /\ toolIn' = input
               /\ toolOut' = r.out
               /\ toolRaised' = r.raised
               /\ quitCalls' = r.quits
    /\ toolOp' = "libretext_book_search"
    /\ UNCHANGED <<govVars, appVars>>

NextTools ==
    \/ WikipediaSearch
    \/ WikipediaSearchNoResponse
    \/ LibretextBookParser
    \/ LibretextChapterParser
    \/ GoogleSearch
    \/ GoogleSearchNoResponse
    \/ WikipediaFetch
    \/ LibretextBookSearch

SpecTools == InitTools /\ [][NextTools]_vars

-----------------------------------------------------------------------------
(* Properties of the governor *)

Called == lastOp = "cap"

Last(s) == s[Len(s)]

HasUsage(s) == Last(s).usage # NoUsage

\* The trimming policy as specified: more than three entries collapse to
\* task, plan and latest; three or fewer stay as they are.
ExpectedTrim(s) ==
    IF Len(s) > 3 THEN <<s[1], s[2], s[Len(s)]>> ELSE s

\* C1: a history of length N > 3 whose last step's usage does not exceed the
\* threshold is, after step_memory_cap returns, exactly [T, P, L].
TrimCollapse ==
    (Called /\ Len(pre) > 3 /\ HasUsage(pre) /\ Last(pre).usage <= 5000)
        => /\ ~raised
           /\ Len(steps) = 3
           /\ steps = <<pre[1], pre[2], pre[Len(pre)]>>

TrimCollapseWitness ==
    /\ Called /\ Len(pre) > 3 /\ HasUsage(pre) /\ Last(pre).usage <= 5000
    /\ ~raised
    /\ steps = <<pre[1], pre[2], pre[Len(pre)]>>
    /\ pre[3] # pre[Len(pre)]

\* C2: a history of length 1, 2 or 3 whose last step's usage does not exceed
\* the threshold makes step_memory_cap return normally and is left unchanged.
TrimNoOp ==
    (Called /\ Len(pre) \in 1..3 /\ HasUsage(pre) /\ Last(pre).usage <= 5000)
        => (~raised /\ steps = pre)

\* C3: for every non-empty history and every outcome of the summarization
\* service, step_memory_cap returns normally.
GovernorNeverRaises ==
    (Called /\ Len(pre) >= 1) => ~raised

\* C4: when the last step's usage exceeds the threshold and the summarizer
\* returns text S, the history becomes one step whose messages are the first
\* message of the pre-call latest step and the user-role summary message.
SummarizationSuccess ==
    (Called /\ HasUsage(pre) /\ Last(pre).usage > 5000 /\ svc.kind = "ok")
        => /\ ~raised
           /\ Len(steps) = 1
           /\ steps[1].msgs =
                  <<Last(pre).msgs[1],
                    [role |-> "user",
                     text |-> "Here is a summary of your investigation so far: "
                                  \o svc.text]>>

SummarizationSuccessWitness ==
    /\ Called /\ Last(pre).usage > 5000 /\ svc.kind = "ok" /\ svc.text # ""
    /\ Len(pre) > 3
    /\ Len(steps) = 1
    /\ Len(steps[1].msgs) = 2
    /\ steps[1].msgs[1] = Last(pre).msgs[1]
    /\ steps[1].msgs[1] # pre[1].msgs[1]

NoResultKinds ==
    {"no_key", "roster_fail", "roster_empty", "completion_fail", "null_content"}

\* C5: when the last step's usage exceeds the threshold and the summarizer
\* yields no result, the history after step_memory_cap is the trimmed,
\* non-summarized history and no step's message list has changed.
SummarizationFailure ==
    (Called /\ HasUsage(pre) /\ Last(pre).usage > 5000 /\ svc.kind \in NoResultKinds)
        => /\ steps = ExpectedTrim(pre)
           /\ \A i \in 1..Len(steps) :
                  \E j \in 1..Len(pre) : steps[i].id = pre[j].id /\ steps[i].msgs = pre[j].msgs

SummarizationFailureWitness ==
    /\ Called /\ Last(pre).usage > 5000 /\ svc.kind = "completion_fail"
    /\ completionCalls = 1
    /\ Len(pre) > 3
    /\ steps = <<pre[1], pre[2], pre[Len(pre)]>>

\* C6: whenever the last step's usage is below the threshold, no call to the
\* summarizer is made (no roster query, no completion request) and the
\* resulting history is exactly the trimmed history.
ThresholdGating ==
    (Called /\ HasUsage(pre) /\ Last(pre).usage < 5000)
        => /\ sumCalls = 0
           /\ rosterCalls = 0
           /\ completionCalls = 0
           /\ steps = ExpectedTrim(pre)

ThresholdGatingWitness ==
    /\ Called /\ HasUsage(pre) /\ Last(pre).usage < 5000
    /\ Len(pre) > 3
    /\ sumCalls = 0
    /\ steps = <<pre[1], pre[2], pre[Len(pre)]>>

\* C7: on a transport, authentication or API error, in the roster query or in
\* the completion request, summarize_old_messages returns None and does not
\* raise.
SummarizerNeverRaises ==
    (Called /\ sumCalls = 1 /\ svc.kind \in {"roster_fail", "completion_fail"})
        => (~sumRaised /\ summary = None)

\* C8: when the endpoint reports no models, summarize_old_messages yields no
\* summary, sends no completion request, and the governor proceeds with the
\* trimmed-only history without raising.
EmptyRosterIsFailure ==
    (Called /\ sumCalls = 1 /\ svc.kind = "roster_empty")
        => /\ ~sumRaised
           /\ summary = None
           /\ completionCalls = 0
           /\ ~raised
           /\ steps = ExpectedTrim(pre)

\* C9: over any sequence of (append one step, invoke step_memory_cap) rounds
\* the first element of the history is always the original task step.
TaskAnchor ==
    /\ Len(steps) >= 1
    /\ steps[1].id = 0

TaskAnchorWitness ==
    /\ Called /\ Len(pre) = 4
    /\ pre[2].id # 1
    /\ Len(pre[1].msgs) = 2 /\ pre[1].msgs[2].role = "user"
    /\ steps[1].id = 0

\* C10 as stated: after every invocation (trim only, summarization success or
\* failure) the step that was last before the call is still last, with the
\* same message list.
LatestRetainedAlways ==
    Called => (Last(steps).id = Last(pre).id /\ Last(steps).msgs = Last(pre).msgs)

\* C10 amended: after every invocation in which no summary is produced the
\* step that was last before the call is still last, with the same message
\* list.
LatestRetainedWithoutSummary ==
    (Called /\ summary = None)
        => (Last(steps).id = Last(pre).id /\ Last(steps).msgs = Last(pre).msgs)

LatestRetainedWitness ==
    /\ Called /\ summary = None /\ sumCalls = 1 /\ ~raised
    /\ Len(pre) > 3
    /\ Last(steps) = Last(pre)
    /\ Last(steps) # pre[Len(pre) - 1]

\* C11 as stated: over (append, step_memory_cap) rounds, whenever the history
\* has at least two entries its element at index 1 is the original plan step,
\* also in the rounds after a successful summarization.
PlanAnchorAlways ==
    Len(steps) >= 2 => steps[2].id = 1

\* C11 amended: over (append, step_memory_cap) rounds, as long as no
\* summarization has succeeded in the run, a history of at least two entries
\* has the original plan step at index 1.
PlanAnchorUntilSummary ==
    (Len(steps) >= 2 /\ ~summarized) => steps[2].id = 1

PlanAnchorWitness ==
    /\ Called /\ ~summarized /\ ~raised
    /\ Len(pre) = 4 /\ pre[3].id = 3
    /\ Len(steps) = 3 /\ steps[2].id = 1

\* C12: the history is replaced by the summary step only when the summarizer
\* returns a non-empty text; a completion whose text is empty or absent leaves
\* the trimmed history and creates no summary message.
NonEmptyGating ==
    /\ (Called /\ sumCalls = 1
          /\ (svc.kind = "null_content" \/ (svc.kind = "ok" /\ svc.text = "")))
           => steps = ExpectedTrim(pre)
    /\ (Called /\ Len(pre) >= 2 /\ steps # ExpectedTrim(pre))
           => (svc.kind = "ok" /\ svc.text # "")

\* C13 (on a history of two or more entries): when the last step carries no
\* token-usage count, step_memory_cap does not raise, does not call the
\* summarizer, and leaves the trimmed history.
MissingUsageIsZero ==
    (Called /\ Len(pre) >= 2 /\ ~HasUsage(pre))
        => /\ ~raised
           /\ sumCalls = 0
           /\ steps = ExpectedTrim(pre)

\* C14: after every invocation on a history of at least two entries the
\* history has at most 3 entries, and with one step appended between
\* consecutive invocations its length never exceeds 4.
BoundedHistory ==
    /\ (Called /\ Len(pre) >= 2) => Len(steps) <= 3
    /\ Len(steps) <= 4

BoundedHistoryWitness ==
    /\ Called /\ Len(pre) = 4 /\ pre[3].id = 3 /\ pre[4].id = 4
    /\ Len(steps) = 3

\* C15: one invocation of step_memory_cap calls the summarizer at most once,
\* one summarizer call issues at most one completion request, and a failed
\* completion request is not repeated.
NoRetries ==
    /\ sumCalls <= 1
    /\ completionCalls <= sumCalls
    /\ rosterCalls <= sumCalls
    /\ (Called /\ svc.kind = "completion_fail") => completionCalls = 1

NoRetriesWitness ==
    /\ Called /\ svc.kind = "completion_fail"
    /\ sumCalls = 1 /\ completionCalls = 1
    /\ summary = None /\ ~raised

LimitOf(op) == IF op = "cap" THEN 5000 ELSE 50000

\* C24: summarization is triggered only when the last step's usage is strictly
\* greater than the threshold; at usage exactly equal to the threshold no
\* summarizer call is made and the history is the trimmed history.
ThresholdBoundary ==
    (lastOp \in {"cap", "agent_cap"})
        => /\ sumCalls > 0 => (HasUsage(pre) /\ Last(pre).usage > LimitOf(lastOp))
           /\ Last(pre).usage = LimitOf(lastOp)
                  => /\ sumCalls = 0
                     /\ rosterCalls = 0
                     /\ completionCalls = 0
                     /\ steps = ExpectedTrim(pre)

ThresholdBoundaryWitness ==
    /\ lastOp = "cap"
    /\ Len(pre) > 3
    /\ Last(pre).usage = 5000
    /\ sumCalls = 0
    /\ ~raised
    /\ steps = <<pre[1], pre[2], pre[Len(pre)]>>

\* C25: the governor registered on the agent (agent.py) applies TOKEN_LIMITER:
\* for every history and every summarizer outcome it leaves the same history,
\* and makes the same summarizer calls, as the copy in agent_helper_functions.py.
AgentCopyAppliesTokenLimiter ==
    lastOp = "agent_cap"
        => \A o \in Outcomes :
               (svc = NoCall \/ svc = o)
                   => LET helper == step_memory_cap(pre, TOKEN_LIMITER, o)
                      IN  /\ steps = helper.steps
                          /\ sumCalls = helper.sumCalls
                          /\ sumInput = helper.sumInput

\* C26: a call of step_memory_cap on the history its previous call left, with
\* no step appended in between, returns normally, and leaves the history
\* unchanged when it produces no summary; the one-step history left by a
\* successful summarization included.  (Calls in which the summarizer itself
\* raises are left out.)
CapOnOwnOutput ==
    [][(lastOp = "cap" /\ ~raised /\ lastOp' = "cap" /\ ~sumRaised')
           => /\ ~raised'
              /\ summary' = None => steps' = steps]_vars

-----------------------------------------------------------------------------
(* Properties of run_and_submit_all *)

Range(seq) == {seq[i] : i \in 1..Len(seq)}

TaskIds(rows) == [i \in 1..Len(rows) |-> rows[i].task_id]

InQuestionsOrder(seq) ==
    LET Kept(q) == q \in Range(seq)
    IN  seq = SelectSeq(QUESTIONS, Kept)

PayloadIsOkRuns ==
    /\ Len(posted) >= 1
    /\ TaskIds(posted) = okRuns
    /\ InQuestionsOrder(okRuns)
    /\ \A i \in 1..Len(ran) :
           ran[i] \notin Range(okRuns) => ran[i] \notin Range(TaskIds(posted))

\* C17 as stated: the submission POST happens at most once per run, only after
\* every selected question has been run through the agent, only when at least
\* one answer was produced, and its payload has exactly one entry per selected
\* question whose run returned without error, in QUESTIONS order.
SubmitAfterAllRan ==
    /\ posts <= 1
    /\ posts = 1 => /\ Range(QUESTIONS) \subseteq Range(ran)
                    /\ PayloadIsOkRuns

\* C17 amended: as above, but the POST waits only for the selected questions
\* that have a task_id and a question text; items lacking either are skipped
\* and never run.
SubmitAfterAllValidRan ==
    /\ posts <= 1
    /\ posts = 1 => /\ Range(QUESTIONS) \subseteq (Range(ran) \cup skipped)
                    /\ Range(ran) \cap skipped = {}
                    /\ PayloadIsOkRuns

SubmitAfterAllValidRanWitness ==
    /\ posts = 1 /\ pc = "returned"
    /\ skipped # {}
    /\ Len(okRuns) >= 2
    /\ Len(ran) > Len(okRuns)
    /\ TaskIds(posted) = okRuns

\* The questions handed to the agent whose run raised.
FailedRuns == {q \in Range(ran) : q \notin Range(okRuns)}

\* The function is over: it returned, is about to submit, or raised.
LoopLeft == pc \in {"submit", "returned", "raised"} /\ agent_created /\ questions_n > 0

\* C27: an exception raised by the agent on one question does not abort the
\* run: every later question in QUESTIONS is still processed, the failed
\* question gets a results-log row whose answer starts with 'AGENT ERROR:',
\* and the results log has exactly one row per selected question that had a
\* task_id and a question text (answers payload rows plus error rows).
ErrorIsolation ==
    /\ TaskIds(results_log) = ran
    /\ \A i \in 1..Len(results_log) :
           ran[i] \in FailedRuns
               => SubSeq(results_log[i].answer, 1, 12) = "AGENT ERROR:"
    /\ Len(results_log) = Len(answers_payload) + Cardinality(FailedRuns)
    /\ (LoopLeft /\ FailedRuns # {})
           => /\ Range(QUESTIONS) \subseteq (Range(ran) \cup skipped)
              /\ Range(ran) \cap skipped = {}

\* C28: run_and_submit_all always returns a (status, results) pair and never
\* raises, whatever list of questions the scoring API returned.
AlwaysReturnsPair ==
    /\ pc # "raised"
    /\ pc = "returned" => (ret # None /\ DOMAIN ret[1] = {"status", "table"})

EarlyExit ==
    pc = "returned" /\ (~profile \/ ~agent_created \/ questions_n = 0)

\* C29: when the user is not logged in, when agent creation fails, or when
\* fetching the questions fails or returns an empty list, the function returns
\* an error status with no results table, the agent is never run and no
\* submission POST is made; when the user is not logged in, no agent is
\* created and no questions are fetched either.
EarlyExitsDoNothing ==
    EarlyExit
        => /\ ret # None
           /\ ret[1].table = None
           /\ ret[1].status \in {"Please Login to Hugging Face with the button.",
                                  "Error initializing agent",
                                  "Error decoding server response for questions",
                                  "Error fetching questions",
                                  "An unexpected error occurred fetching questions",
                                  "Fetched questions list is empty or invalid format."}
           /\ ran = <<>>
           /\ results_log = <<>>
           /\ posts = 0
           /\ ~profile => (~agent_created /\ fetches = 0)
           /\ ~agent_created => fetches = 0

EarlyExitsWitness ==
    /\ pc = "returned"
    /\ profile /\ agent_created
    /\ fetches = 1 /\ questions_n = 0
    /\ ret = Some([status |-> "Fetched questions list is empty or invalid format.",
                   table |-> None])
    /\ ran = <<>>
    /\ posts = 0

-----------------------------------------------------------------------------
(* Properties of the tools *)

\* C18: wikipedia_search returns a dictionary for every HTTP status the
\* search endpoint answers with, non-200 statuses included.
WikipediaSearchReturnsDict ==
    (toolOp = "wikipedia_search" /\ ~toolRaised) => toolOut.type = "dict"

ParsedOk ==
    /\ toolOp \in {"book", "chapter"}
    /\ ~toolRaised
    /\ toolIn.fetched = "ok"

\* The listings of the page that have a link and a title of more than 2
\* characters, in page order.
KeptListings ==
    LET Kept(l) == HasLink(toolOp, l) /\ Len(TitleOf(toolOp, l)) > 2
    IN  SelectSeq(toolIn.listings, Kept)

\* C19: the dictionary a LibreTexts parser returns has the keys 0..n-1 in page
\* order without gaps, every entry has 'title', 'url' and 'description', and
\* every title has more than 2 characters; skipped listings consume no key.
ParserKeysConsecutive ==
    ParsedOk =>
        LET d == toolOut.value
            n == Cardinality(DOMAIN d)
        IN  /\ toolOut.type = "dict"
            /\ DOMAIN d = {IntKey(i) : i \in 0..(n - 1)}
            /\ n = Len(KeptListings)
            /\ \A i \in 0..(n - 1) :
                   /\ DOMAIN d[IntKey(i)] = {"title", "url", "description"}
                   /\ Len(d[IntKey(i)].title) > 2
                   /\ d[IntKey(i)].title = TitleOf(toolOp, KeptListings[i + 1])
                   /\ d[IntKey(i)].url = KeptListings[i + 1].href

ParserKeysWitness ==
    /\ ParsedOk
    /\ Len(toolIn.listings) = 3
    /\ ~HasLink(toolOp, toolIn.listings[1])
    /\ HasLink(toolOp, toolIn.listings[2]) /\ Len(TitleOf(toolOp, toolIn.listings[2])) <= 2
    /\ DOMAIN toolOut.value = {IntKey(0)}
    /\ toolOut.value[IntKey(0)].title = <<"I", "n", "t", "r", "o">>

\* C20: a LibreTexts parser never raises; a request failure or any other
\* exception gives a dictionary whose only key is 'error', and a successful
\* parse has no key 'error'.
ParsersNeverRaise ==
    toolOp \in {"book", "chapter"} =>
        /\ ~toolRaised
        /\ toolOut.type = "dict"
        /\ toolIn.fetched # "ok" => DOMAIN toolOut.value = {StrKey("error")}
        /\ toolIn.fetched = "ok" => StrKey("error") \notin DOMAIN toolOut.value

ParsersNeverRaiseWitness ==
    /\ toolOp = "chapter"
    /\ toolIn.fetched = "unexpected_error"
    /\ Len(toolIn.listings) >= 1
    /\ ~toolRaised
    /\ DOMAIN toolOut.value = {StrKey("error")}

SearchReturned ==
    toolOp = "libretext_book_search" /\ ~toolRaised /\ toolOut # None

SearchResults ==
    {toolOut.value[k] : k \in {key \in DOMAIN toolOut.value : key # StrKey("error")}}

\* C21: in every result libretext_book_search returns whose 'url' is not
\* empty, the URL starts with 'http://', 'https://' or '/', whatever href
\* values the results page has.
ResultUrlsValid ==
    SearchReturned
        => \A result \in SearchResults :
               result.url # <<>>
                   => \/ StartsWith(result.url, <<"h", "t", "t", "p", ":", "/", "/">>)
                      \/ StartsWith(result.url, <<"h", "t", "t", "p", "s", ":", "/", "/">>)
                      \/ StartsWith(result.url, <<"/">>)

FetchReturned == toolOp = "fetch" /\ ~toolRaised

RequestFailed ==
    toolIn.request \in {"ConnectionError", "Timeout", "TooManyRedirects"}

ErrorStatus ==
    toolIn.request = "response" /\ toolIn.status_code >= 400

GoogleReturned == toolOp = "google_search" /\ ~toolRaised

\* C23: the dictionary google_search returns has one entry per hit the search
\* yielded (10 for a full page), keyed by the consecutive integers from 0 in
\* hit order, and every entry has exactly the fields 'title', 'url' and
\* 'description', copied from that hit.
GoogleResultShape ==
    GoogleReturned
        => /\ toolOut.type = "dict"
           /\ DOMAIN toolOut.value = {IntKey(i - 1) : i \in 1..Len(toolIn.results)}
           /\ \A i \in 1..Len(toolIn.results) :
                  LET entry == toolOut.value[IntKey(i - 1)]
                      hit == toolIn.results[i]
                  IN  /\ DOMAIN entry = {"title", "url", "description"}
                      /\ entry.title = hit.title
                      /\ entry.url = hit.url
                      /\ entry.description = hit.description

GoogleResultShapeWitness ==
    /\ GoogleReturned
    /\ Len(toolIn.results) = 10
    /\ Cardinality(DOMAIN toolOut.value) = 10
    /\ toolOut.value[IntKey(9)].title = "hit 10"

\* C30: on every exit path of libretext_book_search after the Chrome driver
\* was created (results returned, timeout waiting for results, WebDriver
\* error, any other exception) driver.quit() is attempted exactly once before
\* the function returns, and a failure of quit neither changes the returned
\* value nor raises.
DriverQuitOnce ==
    (toolOp = "libretext_book_search" /\ toolIn.chrome.driver = "created")
        => /\ quitCalls = 1
           /\ ~toolRaised
           /\ toolOut.type = "dict"
           /\ toolIn.chrome.page = "timeout"
                  => toolOut.value =
                         (StrKey("error") :> "Timeout waiting for search results to load")
           /\ toolIn.chrome.page = "webdriver_error"
                  => DOMAIN toolOut.value = {StrKey("error")}
           /\ toolIn.chrome.page = "other_error"
                  => DOMAIN toolOut.value = {StrKey("error")}
           /\ toolIn.chrome.page = "results"
                  => StrKey("error") \notin DOMAIN toolOut.value

DriverQuitOnceWitness ==
    /\ toolOp = "libretext_book_search"
    /\ toolIn.chrome = [driver |-> "created", page |-> "timeout", quit |-> "fails"]
    /\ quitCalls = 1
    /\ ~toolRaised
    /\ StrKey("error") \in DOMAIN toolOut.value

====
